---- MODULE Spec2Model ----
(***************************************************************************)
(* A model of the AWS Parameter Store Manager:                             *)
(*   - config.py: AWSConfig, the authentication configuration and its      *)
(*     lazily created, cached boto3 session;                               *)
(*   - aws_parameter_manager.py: AWSParameterManager (connect,             *)
(*     parameter_exists, create_or_update_parameter);                      *)
(*   - cli_app.py / gui_app.py: the upload loop with its replace / skip /  *)
(*     abort prompt.                                                       *)
(* The remote store and the credential providers are the environment:      *)
(* every response they can give is a nondeterministic choice.              *)
(***************************************************************************)
EXTENDS Integers, Sequences, FiniteSets, TLC

VARIABLES
    aws_config,      \* the fields of the global AWSConfig instance (config.py:262)
    _session,        \* AWSConfig._session, the cached session
    assume_calls,    \* sts.assume_role calls issued since the last setter call
    last_call,       \* the last AWSConfig / manager call and what it returned or raised
    ssm_client,      \* AWSParameterManager.ssm_client
    current_parameters, \* AWSParameterManager.current_parameters: name -> record
    store,           \* the remote parameter store: name -> record or Absent
    store_at_start,  \* the store as it was when the running upload started
    parameters,      \* upload: the desired records read from the CSV file
    overwrite,       \* upload: args.overwrite / overwrite_var
    pc,              \* upload: position in upload_command / upload_thread
    i,               \* upload: index (1-based) of the record being processed
    exists,          \* upload: first result of parameter_exists
    existing_param,  \* upload: second result of parameter_exists
    uploaded_count,  \* upload: uploaded_count
    skipped_count,   \* upload: skipped_count
    ret,             \* upload: the value upload_command returned (NoRet while running)
    log,             \* upload: the calls made to the store and to the prompt, in order
    threads,         \* gui_app.py: the worker threads started and not yet finished
    csv_file         \* the CSV file on disk: its header and rows, or NoFile

auth_vars == <<aws_config, _session, assume_calls>>
upload_vars == <<store, store_at_start, parameters, overwrite, pc, i, exists,
                 existing_param, uploaded_count, skipped_count, ret, log, csv_file>>
\* what the AWSConfig methods leave alone
manager_vars == <<ssm_client, current_parameters, store, store_at_start, parameters, overwrite, pc, i, exists,
                  existing_param, uploaded_count, skipped_count, ret, log, threads, csv_file>>
vars == <<aws_config, _session, assume_calls, last_call, ssm_client,
          current_parameters, store,
          store_at_start, parameters, overwrite, pc, i, exists, existing_param,
          uploaded_count, skipped_count, ret, log, threads, csv_file>>

(***************************************************************************)
(* Bounds and input sets                                                   *)
(***************************************************************************)
MaxAssumeCalls == 2      \* cap on the assume_calls counter
MaxParams == 3           \* longest desired-record list of an upload

\* Python's None, for the string-valued fields
None == "<None>"
\* Python's None, for _session
NoSession == [via |-> "<None>", cred |-> <<>>, region |-> "<None>"]

\* Python's None, for a parameter record
NoParam == [Name |-> None, Value |-> None, Type |-> None, Tier |-> None,
            KeyId |-> None, Version |-> 0]

\* A name the store does not hold
Absent == [Value |-> "<absent>", Type |-> "", Tier |-> "", KeyId |-> "", Version |-> 0]
\* upload_command has not returned
NoRet == -1

\* No worker thread of the GUI has been started
NoThreads == [connect |-> 0, refresh |-> 0, delete |-> 0]

\* No CSV file on disk
NoFile == [present |-> FALSE, fieldnames |-> <<>>, rows |-> <<>>]

\* bool(v) of an Optional[str]
Truthy(v) == v # None /\ v # ""

StrVals == {"", "a"}
OptVals == {None, "t"}
Regions == {"us-east-1", "eu-west-1"}
KmsKeys == {"alias/aws/ssm", "alias/app"}
\* (sso_start_url, sso_region, sso_account_id, sso_role_name) arguments:
\* all given, exactly one empty, all empty
SsoArgs == {<<"a", "a", "a", "a">>, <<"", "a", "a", "a">>, <<"a", "", "a", "a">>,
            <<"a", "a", "", "a">>, <<"a", "a", "a", "">>, <<"", "", "", "">>}
\* (role_session_name, external_id, mfa_serial, mfa_token) arguments
RoleOptArgs == {<<None, None, None, None>>, <<"s", "e", "m", "1">>}

(***************************************************************************)
(* config.py: AuthMethod and AWSConfig                                     *)
(***************************************************************************)
ACCESS_KEY == "access_key"
PROFILE == "profile"
SSO == "sso"
ROLE == "role"
ENVIRONMENT == "environment"
DEFAULT == "default"
AuthMethod == {ACCESS_KEY, PROFILE, SSO, ROLE, ENVIRONMENT, DEFAULT}

\* AWSConfig.__init__
AWSConfigInit ==
    [region |-> "us-east-1", kms_key_alias |-> "alias/aws/ssm", auth_method |-> DEFAULT,
     access_key_id |-> None, secret_access_key |-> None, session_token |-> None,
     profile_name |-> None,
     sso_start_url |-> None, sso_region |-> None, sso_account_id |-> None,
     sso_role_name |-> None,
     role_arn |-> None, role_session_name |-> None, external_id |-> None,
     mfa_serial |-> None, mfa_token |-> None]

\* f"aws-parameter-store-{os.getpid()}"
DefaultRoleSessionName == "aws-parameter-store-<pid>"

\* The configuration after each setter (the assignments before `_session = None`)
AccessKeyConfig(c, key, secret, token, reg) ==
    [c EXCEPT !.auth_method = ACCESS_KEY, !.access_key_id = key,
              !.secret_access_key = secret, !.session_token = token, !.region = reg]

ProfileConfig(c, profile, reg) ==
    [c EXCEPT !.auth_method = PROFILE, !.profile_name = profile, !.region = reg]

SsoConfig(c, sso, reg) ==
    [c EXCEPT !.auth_method = SSO, !.sso_start_url = sso[1], !.sso_region = sso[2],
              !.sso_account_id = sso[3], !.sso_role_name = sso[4], !.region = reg]

RoleConfig(c, arn, opt, reg) ==
    [c EXCEPT !.auth_method = ROLE, !.role_arn = arn,
              !.role_session_name = IF Truthy(opt[1]) THEN opt[1] ELSE DefaultRoleSessionName,
              !.external_id = opt[2], !.mfa_serial = opt[3], !.mfa_token = opt[4],
              !.region = reg]

EnvironmentConfig(c, reg) == [c EXCEPT !.auth_method = ENVIRONMENT, !.region = reg]

DefaultConfig(c, reg) == [c EXCEPT !.auth_method = DEFAULT, !.region = reg]

\* A setter that forgets `self._session = None`
SessionKeptBySetter(old) == old

\* What every setter stores into _session on its last line
SessionAfterSetter(old) == NoSession

\* is_configured with the SSO test stopping after three of the four fields
is_configured_sso_three(c) ==
    IF c.auth_method = ACCESS_KEY
      THEN Truthy(c.access_key_id) /\ Truthy(c.secret_access_key)
    ELSE IF c.auth_method = PROFILE
      THEN Truthy(c.profile_name)
    ELSE IF c.auth_method = SSO
      THEN Truthy(c.sso_start_url) /\ Truthy(c.sso_region) /\ Truthy(c.sso_account_id)
    ELSE IF c.auth_method = ROLE
      THEN Truthy(c.role_arn)
    ELSE TRUE

\* AWSConfig.is_configured
is_configured(c) ==
    IF c.auth_method = ACCESS_KEY
      THEN Truthy(c.access_key_id) /\ Truthy(c.secret_access_key)
    ELSE IF c.auth_method = PROFILE
      THEN Truthy(c.profile_name)
    ELSE IF c.auth_method = SSO
      THEN Truthy(c.sso_start_url) /\ Truthy(c.sso_region)
           /\ Truthy(c.sso_account_id) /\ Truthy(c.sso_role_name)
    ELSE IF c.auth_method = ROLE
      THEN Truthy(c.role_arn)
    ELSE IF c.auth_method \in {ENVIRONMENT, DEFAULT}
      THEN TRUE
    ELSE FALSE

\* The session each _create_*_session builds when nothing fails
create_access_key_session(c) ==
    [via |-> "static",
     cred |-> <<c.access_key_id, c.secret_access_key,
                IF Truthy(c.session_token) THEN c.session_token ELSE None>>,
     region |-> c.region]

create_profile_session(c) ==
    [via |-> "profile", cred |-> <<c.profile_name>>, region |-> c.region]

create_sso_session(c) == [via |-> "ambient", cred |-> <<>>, region |-> c.region]

\* the temporary credentials are those of the assume_role request
create_role_session(c) ==
    [via |-> "assumed_role",
     cred |-> <<c.role_arn, c.role_session_name,
                IF Truthy(c.external_id) THEN c.external_id ELSE None,
                IF Truthy(c.mfa_serial) /\ Truthy(c.mfa_token) THEN c.mfa_serial ELSE None,
                IF Truthy(c.mfa_serial) /\ Truthy(c.mfa_token) THEN c.mfa_token ELSE None>>,
     region |-> c.region]

create_environment_session(c) == [via |-> "ambient", cred |-> <<>>, region |-> c.region]

create_default_session(c) == [via |-> "ambient", cred |-> <<>>, region |-> c.region]

\* The dispatch of get_session on auth_method
CreateSession(c) ==
    IF c.auth_method = ACCESS_KEY THEN create_access_key_session(c)
    ELSE IF c.auth_method = PROFILE THEN create_profile_session(c)
    ELSE IF c.auth_method = SSO THEN create_sso_session(c)
    ELSE IF c.auth_method = ROLE THEN create_role_session(c)
    ELSE IF c.auth_method = ENVIRONMENT THEN create_environment_session(c)
    ELSE create_default_session(c)

\* Exceptions: the classes connect() catches, and one it does not
\* (a botocore BotoCoreError such as EndpointConnectionError)
ClientError == "ClientError"
NoCredentialsError == "NoCredentialsError"
ValueError == "ValueError"
ProfileNotFound == "ProfileNotFound"
EndpointConnectionError == "EndpointConnectionError"
NoError == ""

\* What the environment can answer to one session creation: "" for success, or
\* the exception raised.  boto3.Session(...) from static credentials or from the
\* ambient chain makes no call that can fail; a named profile may be missing;
\* the sso client may fail to build (re-raised as ValueError); sts.assume_role
\* may be rejected, lack base credentials or not reach the endpoint.
CreateOutcomes(c) ==
    IF c.auth_method = PROFILE THEN {NoError, ProfileNotFound}
    ELSE IF c.auth_method = SSO THEN {NoError, ValueError}
    ELSE IF c.auth_method = ROLE
      THEN {NoError, ClientError, NoCredentialsError, EndpointConnectionError}
    ELSE {NoError}

\* An except branch that leaves the half-built base session in _session
PartialSessionAfterFailure(old) == [via |-> "ambient", cred |-> <<>>, region |-> "us-east-1"]

\* The value of _session when get_session leaves through `except Exception`
SessionAfterFailure(old) == NoSession

\* get_session without the `if self._session is not None` shortcut
get_session_uncached(c, cached, outcome) ==
    IF outcome = NoError
      THEN [session |-> CreateSession(c), ret |-> CreateSession(c), raised |-> NoError,
            created |-> TRUE, assumed |-> c.auth_method = ROLE]
    ELSE [session |-> NoSession, ret |-> NoSession, raised |-> outcome,
          created |-> TRUE, assumed |-> c.auth_method = ROLE]

\* get_session applied to (configuration, cached session) under one outcome of
\* the environment: the new _session, the value returned, the exception raised,
\* whether a _create_*_session ran and whether sts.assume_role was called
get_session(c, cached, outcome) ==
    IF cached # NoSession
      THEN [session |-> cached, ret |-> cached, raised |-> NoError,
            created |-> FALSE, assumed |-> FALSE]
    ELSE IF outcome = NoError
      THEN [session |-> CreateSession(c), ret |-> CreateSession(c), raised |-> NoError,
            created |-> TRUE, assumed |-> c.auth_method = ROLE]
    ELSE [session |-> SessionAfterFailure(cached), ret |-> NoSession, raised |-> outcome,
          created |-> TRUE, assumed |-> c.auth_method = ROLE]

\* last_call: the operation, whether a session was cached when it began, what it
\* returned or raised, and whether it ran a _create_*_session
NoCall == [op |-> "", cached |-> FALSE, ret |-> NoSession, raised |-> NoError,
           created |-> FALSE]

Setter(name, c) ==
    /\ aws_config' = c
    /\ _session' = SessionAfterSetter(_session)
    /\ assume_calls' = 0
    /\ last_call' = [op |-> name, cached |-> _session # NoSession, ret |-> NoSession,
                     raised |-> NoError, created |-> FALSE]
    /\ UNCHANGED manager_vars

set_access_key_auth ==
    \E key \in StrVals, secret \in StrVals, token \in OptVals, reg \in Regions :
        Setter("set_access_key_auth", AccessKeyConfig(aws_config, key, secret, token, reg))

set_profile_auth ==
    \E profile \in StrVals, reg \in Regions :
        Setter("set_profile_auth", ProfileConfig(aws_config, profile, reg))

set_sso_auth ==
    \E sso \in SsoArgs, reg \in Regions :
        Setter("set_sso_auth", SsoConfig(aws_config, sso, reg))

set_role_auth ==
    \E arn \in StrVals, opt \in RoleOptArgs, reg \in Regions :
        Setter("set_role_auth", RoleConfig(aws_config, arn, opt, reg))

set_environment_auth ==
    \E reg \in Regions : Setter("set_environment_auth", EnvironmentConfig(aws_config, reg))

set_default_auth ==
    \E reg \in Regions : Setter("set_default_auth", DefaultConfig(aws_config, reg))

\* AWSConfig.reset: self.__init__()
reset ==
    /\ aws_config' = AWSConfigInit
    /\ _session' = NoSession
    /\ assume_calls' = 0
    /\ last_call' = [op |-> "reset", cached |-> _session # NoSession, ret |-> NoSession,
                     raised |-> NoError, created |-> FALSE]
    /\ UNCHANGED manager_vars

\* configure_aws_auth / connect_to_aws: aws_config.kms_key_alias = ..., assigned
\* directly, after the setter
set_kms_key_alias ==
    \E key \in KmsKeys :
        /\ aws_config' = [aws_config EXCEPT !.kms_key_alias = key]
        /\ UNCHANGED <<_session, assume_calls, last_call, manager_vars>>

IsConfiguredCall ==
    /\ last_call' = [op |-> "is_configured", cached |-> _session # NoSession,
                     ret |-> is_configured(aws_config), raised |-> NoError,
                     created |-> FALSE]
    /\ UNCHANGED <<auth_vars, manager_vars>>

GetSessionCall ==
    \E outcome \in CreateOutcomes(aws_config) :
        LET r == get_session(aws_config, _session, outcome) IN
        /\ r.assumed => assume_calls < MaxAssumeCalls
        /\ _session' = r.session
        /\ assume_calls' = IF r.assumed THEN assume_calls + 1 ELSE assume_calls
        /\ last_call' = [op |-> "get_session", cached |-> _session # NoSession,
                         ret |-> r.ret, raised |-> r.raised, created |-> r.created]
        /\ UNCHANGED <<aws_config, manager_vars>>

(***************************************************************************)
(* Specification of the authentication configuration alone                 *)
(***************************************************************************)

InitAuth ==
    /\ aws_config = AWSConfigInit
    /\ _session = NoSession
    /\ assume_calls = 0
    /\ last_call = NoCall
    /\ ssm_client = NoSession
    /\ current_parameters = <<>>
    /\ store = <<>>
    /\ store_at_start = <<>>
    /\ parameters = <<>>
    /\ overwrite = FALSE
    /\ pc = "idle"
    /\ i = 0
    /\ exists = FALSE
    /\ existing_param = NoParam
    /\ uploaded_count = 0
    /\ skipped_count = 0
    /\ ret = NoRet
    /\ log = <<>>
    /\ threads = NoThreads
    /\ csv_file = NoFile

NextAuth ==
    \/ set_access_key_auth
    \/ set_profile_auth
    \/ set_sso_auth
    \/ set_role_auth
    \/ set_environment_auth
    \/ set_default_auth
    \/ reset
    \/ set_kms_key_alias
    \/ IsConfiguredCall
    \/ GetSessionCall

SpecAuth == InitAuth /\ [][NextAuth]_vars

(***************************************************************************)
(* The remote store (boto3 ssm client), as the manager sees it             *)
(***************************************************************************)
Names == {"/a", "/b", "/c"}

\* Error codes of a botocore ClientError, as read from e.response["Error"]["Code"]
ParameterNotFound == "ParameterNotFound"
AccessDeniedException == "AccessDeniedException"
ParameterAlreadyExists == "ParameterAlreadyExists"
ClientErrorCodes == {ParameterNotFound, AccessDeniedException, ParameterAlreadyExists}
\* `except ClientError` catches the error codes; EndpointConnectionError is a
\* BotoCoreError and passes through it
IsClientError(e) == e \in ClientErrorCodes

Present(st, name) == st[name] # Absent

\* What ssm.get_parameter(Name, WithDecryption=True) can answer
GetParameterResponses(st, name) ==
    (IF Present(st, name)
       THEN {[error |-> NoError,
              Parameter |-> [Name |-> name, Value |-> st[name].Value,
                             Type |-> st[name].Type, Version |-> st[name].Version]]}
       ELSE {[error |-> ParameterNotFound, Parameter |-> NoParam]})
    \cup {[error |-> e, Parameter |-> NoParam] :
            e \in {AccessDeniedException, EndpointConnectionError}}

\* What ssm.describe_parameters(Filters=[Name = name]) can answer: the metadata
\* of the parameter, a page without it (results are best effort: a page may
\* hold no item), or a failure
DescribeParametersResponses(st, name) ==
    (IF Present(st, name)
       THEN {[error |-> NoError,
              Parameters |-> <<[Name |-> name, Type |-> st[name].Type,
                                Tier |-> st[name].Tier, KeyId |-> st[name].KeyId]>>]}
       ELSE {})
    \cup {[error |-> NoError, Parameters |-> <<>>]}
    \cup {[error |-> e, Parameters |-> <<>>] :
            e \in {AccessDeniedException, EndpointConnectionError}}

\* What ssm.put_parameter(**put_params) can answer
PutParameterResponses(st, req) ==
    (IF Present(st, req.Name) /\ ~req.Overwrite
       THEN {ParameterAlreadyExists}
       ELSE {NoError})
    \cup {AccessDeniedException, EndpointConnectionError}

\* The store after an accepted put_parameter
StoreAfterPut(st, req) ==
    [st EXCEPT ![req.Name] =
        [Value |-> req.Value, Type |-> req.Type, Tier |-> req.Tier,
         KeyId |-> IF req.Type # "SecureString" THEN ""
                   ELSE IF req.KeyId = None THEN "alias/aws/ssm" ELSE req.KeyId,
         Version |-> st[req.Name].Version + 1]]

(***************************************************************************)
(* aws_parameter_manager.py: AWSParameterManager                           *)
(***************************************************************************)
\* parameter_exists that answers False to every ClientError
parameter_exists_any_error(getResp, descResp) ==
    IF getResp.error # NoError
      THEN IF IsClientError(getResp.error)
             THEN [raised |-> NoError, exists |-> FALSE, existing_param |-> NoParam]
             ELSE [raised |-> getResp.error, exists |-> FALSE, existing_param |-> NoParam]
    ELSE IF descResp.error # NoError
      THEN IF IsClientError(descResp.error)
             THEN [raised |-> NoError, exists |-> FALSE, existing_param |-> NoParam]
             ELSE [raised |-> descResp.error, exists |-> FALSE, existing_param |-> NoParam]
    ELSE IF descResp.Parameters # <<>>
      THEN [raised |-> NoError, exists |-> TRUE,
            existing_param |-> [Name |-> getResp.Parameter.Name,
                                Value |-> getResp.Parameter.Value,
                                Type |-> getResp.Parameter.Type,
                                Tier |-> descResp.Parameters[1].Tier,
                                KeyId |-> descResp.Parameters[1].KeyId,
                                Version |-> getResp.Parameter.Version]]
    ELSE [raised |-> NoError, exists |-> FALSE, existing_param |-> NoParam]

\* The except clause of parameter_exists, for the error e of a failed call
ExistsOnError(e) ==
    IF IsClientError(e) /\ e = ParameterNotFound
      THEN [raised |-> NoError, exists |-> FALSE, existing_param |-> NoParam]
      ELSE [raised |-> e, exists |-> FALSE, existing_param |-> NoParam]

\* parameter_exists, given the answers to get_parameter and (when it is
\* reached) describe_parameters: the exception raised, or the pair returned
parameter_exists(getResp, descResp) ==
    IF getResp.error # NoError THEN ExistsOnError(getResp.error)
    ELSE IF descResp.error # NoError THEN ExistsOnError(descResp.error)
    ELSE IF descResp.Parameters # <<>>
      THEN [raised |-> NoError, exists |-> TRUE,
            existing_param |-> [Name |-> getResp.Parameter.Name,
                                Value |-> getResp.Parameter.Value,
                                Type |-> getResp.Parameter.Type,
                                Tier |-> descResp.Parameters[1].Tier,
                                KeyId |-> descResp.Parameters[1].KeyId,
                                Version |-> getResp.Parameter.Version]]
    ELSE [raised |-> NoError, exists |-> FALSE, existing_param |-> NoParam]

\* put_params with the key attached whatever the type
PutParamsKeyForAnyType(param, ow) ==
    [Name |-> param.key, Value |-> param.value, Type |-> param.type,
     Tier |-> param.tier, Overwrite |-> ow,
     KeyId |-> IF Truthy(param.kms_key) THEN param.kms_key ELSE None]

\* put_params of create_or_update_parameter
PutParams(param, ow) ==
    [Name |-> param.key, Value |-> param.value, Type |-> param.type,
     Tier |-> param.tier, Overwrite |-> ow,
     KeyId |-> IF param.type = "SecureString" /\ Truthy(param.kms_key)
                 THEN param.kms_key ELSE None]

\* create_or_update_parameter, given the answer to put_parameter
create_or_update_parameter(resp) ==
    IF resp = NoError THEN [raised |-> NoError, ret |-> TRUE]
    ELSE IF IsClientError(resp) THEN [raised |-> NoError, ret |-> FALSE]
    ELSE [raised |-> resp, ret |-> FALSE]

\* What the probe describe_parameters(MaxResults=1) of connect can answer
ProbeOutcomes == {NoError, ClientError, NoCredentialsError, EndpointConnectionError}

\* The exception classes connect() catches
ConnectCatches(e) == e \in {ClientError, NoCredentialsError, ValueError, ProfileNotFound}

\* AWSParameterManager.connect
connect ==
    /\ IF ~is_configured(aws_config)
         THEN /\ last_call' = [op |-> "connect", cached |-> _session # NoSession,
                               ret |-> FALSE, raised |-> NoError, created |-> FALSE]
              /\ UNCHANGED <<auth_vars, ssm_client>>
         ELSE \E outcome \in CreateOutcomes(aws_config), probe \in ProbeOutcomes :
                LET r == get_session(aws_config, _session, outcome) IN
                /\ r.assumed => assume_calls < MaxAssumeCalls
                /\ _session' = r.session
                /\ assume_calls' = IF r.assumed THEN assume_calls + 1 ELSE assume_calls
                /\ UNCHANGED aws_config
                /\ IF r.raised # NoError
                     THEN /\ ssm_client' = ssm_client
                          /\ last_call' =
                               [op |-> "connect", cached |-> _session # NoSession,
                                ret |-> FALSE,
                                raised |-> IF ConnectCatches(r.raised) THEN NoError
                                           ELSE r.raised,
                                created |-> r.created]
                     ELSE /\ ssm_client' = r.ret
                          /\ last_call' =
                               [op |-> "connect", cached |-> _session # NoSession,
                                ret |-> probe = NoError,
                                raised |-> IF probe = NoError \/ ConnectCatches(probe)
                                             THEN NoError ELSE probe,
                                created |-> r.created]
    /\ UNCHANGED <<upload_vars, current_parameters>>

(***************************************************************************)
(* cli_app.py upload_command / gui_app.py upload_thread                    *)
(***************************************************************************)
\* main(): one connect(), before the command runs
MainConnect ==
    /\ pc = "idle"
    /\ last_call.op = ""
    /\ connect
    /\ UNCHANGED threads

\* The records read_csv_parameters can return: one desired record per name
DesiredRecord(n) ==
    [key |-> n, value |-> "new",
     type |-> IF n = "/b" THEN "SecureString" ELSE "String",
     tier |-> "Standard", kms_key |-> "alias/aws/ssm"]

ParameterLists ==
    UNION {[1..n -> {DesiredRecord(k) : k \in Names}] : n \in 0..MaxParams}

\* A parameter as it lies in the store before the upload
OldRecord == [Value |-> "old", Type |-> "String", Tier |-> "Standard",
              KeyId |-> "", Version |-> 1]

InitialStores == [Names -> {Absent, OldRecord}]

\* The answers to "Replace? (y/n/q): " (askyesnocancel: Yes / No / Cancel)
Responses == {"y", "n", "q"}

\* One entry of the log: a call to the store or to the prompt, made for record idx
GetCall(idx) == [op |-> "get_parameter", idx |-> idx, answer |-> "",
                 Overwrite |-> FALSE, ok |-> TRUE]
DescribeCall(idx) == [op |-> "describe_parameters", idx |-> idx, answer |-> "",
                      Overwrite |-> FALSE, ok |-> TRUE]
PromptCall(idx, response) == [op |-> "prompt", idx |-> idx, answer |-> response,
                              Overwrite |-> FALSE, ok |-> TRUE]
PutCall(idx, ow, ok) == [op |-> "put_parameter", idx |-> idx, answer |-> "",
                         Overwrite |-> ow, ok |-> ok]

\* A loop that steps over every other record
NextIndexSkipping(idx) == idx + 2

\* The index of the record the loop takes after record idx
NextIndex(idx) == idx + 1

\* The overwrite argument the upload loop passes to create_or_update_parameter
UploadOverwriteArg == TRUE

\* A prompt that takes every answer but q for a yes
DecideNoAsYes(response) ==
    IF response = "q" THEN "break" ELSE "upload"

\* A prompt whose q skips the record instead of leaving the loop
DecideQuitAsSkip(response) ==
    IF response # "y" THEN "continue" ELSE "upload"

\* What the loop does with the answer: `if response == "q": break`,
\* `elif response != "y": continue`, else fall through to the upload
Decide(response) ==
    IF response = "q" THEN "break"
    ELSE IF response # "y" THEN "continue"
    ELSE "upload"

\* The test that sends a record to the prompt
NeedsPrompt(ex, ow) == ex /\ ~ow

\* upload_command up to the loop: read the CSV file, leave with 1 when it holds
\* no valid record, zero the counters.  main() reaches it after connect()
\* returned True.
StartUpload ==
    /\ pc = "idle"
    /\ last_call.op = "connect" /\ last_call.ret = TRUE
    /\ \E params \in ParameterLists, ow \in BOOLEAN :
         /\ parameters' = params
         /\ overwrite' = ow
         /\ IF params = <<>>
              THEN pc' = "done" /\ ret' = 1 /\ i' = 0
              ELSE pc' = "loop" /\ ret' = NoRet /\ i' = 1
    /\ store_at_start' = store
    /\ uploaded_count' = 0
    /\ skipped_count' = 0
    /\ log' = <<>>
    /\ UNCHANGED <<auth_vars, last_call, ssm_client, current_parameters, threads, csv_file, store, exists, existing_param>>

\* The loop is exhausted: print the counts, return 0
FinishUpload ==
    /\ pc = "loop"
    /\ i > Len(parameters)
    /\ pc' = "done"
    /\ ret' = 0
    /\ UNCHANGED <<auth_vars, last_call, ssm_client, current_parameters, threads, csv_file, store, store_at_start, parameters,
                   overwrite, i, exists, existing_param, uploaded_count, skipped_count,
                   log>>

\* Top of the loop body: parameter_exists(param["key"]) and the test
\* `if exists and not overwrite`
CheckExists ==
    /\ pc = "loop"
    /\ i <= Len(parameters)
    /\ \E getResp \in GetParameterResponses(store, parameters[i].key),
          descResp \in DescribeParametersResponses(store, parameters[i].key) :
         LET r == parameter_exists(getResp, descResp) IN
         /\ log' = IF getResp.error = NoError
                     THEN log \o <<GetCall(i), DescribeCall(i)>>
                     ELSE Append(log, GetCall(i))
         \* the describe answer matters only when the call is made
         /\ getResp.error # NoError => descResp = [error |-> NoError, Parameters |-> <<>>]
         /\ last_call' = [op |-> "parameter_exists", name |-> parameters[i].key,
                          get_error |-> getResp.error, desc_error |-> descResp.error,
                          desc_items |-> Len(descResp.Parameters),
                          exists |-> r.exists, existing_param |-> r.existing_param,
                          raised |-> r.raised]
         /\ IF r.raised # NoError
              THEN /\ pc' = "done"
                   /\ ret' = 1
                   /\ UNCHANGED <<exists, existing_param>>
              ELSE /\ exists' = r.exists
                   /\ existing_param' = r.existing_param
                   /\ pc' = IF NeedsPrompt(r.exists, overwrite) THEN "prompt" ELSE "write"
                   /\ ret' = ret
    /\ UNCHANGED <<auth_vars, ssm_client, current_parameters, threads, csv_file, store, store_at_start, parameters,
                   overwrite, i, uploaded_count, skipped_count>>

\* The answer to the prompt: q breaks out of the loop, y goes on to the write,
\* anything else skips the record
Prompt ==
    /\ pc = "prompt"
    /\ \E response \in Responses :
         /\ log' = Append(log, PromptCall(i, response))
         /\ IF Decide(response) = "break"
              THEN /\ pc' = "done"
                   /\ ret' = 0
                   /\ UNCHANGED <<i, skipped_count>>
              ELSE IF Decide(response) = "continue"
              THEN /\ skipped_count' = skipped_count + 1
                   /\ i' = NextIndex(i)
                   /\ pc' = "loop"
                   /\ ret' = ret
              ELSE /\ pc' = "write"
                   /\ UNCHANGED <<i, skipped_count, ret>>
    /\ UNCHANGED <<auth_vars, last_call, ssm_client, current_parameters, threads, csv_file, store, store_at_start, parameters,
                   overwrite, exists, existing_param, uploaded_count>>

\* create_or_update_parameter(param, overwrite=True) and the count
WriteParameter ==
    /\ pc = "write"
    /\ LET req == PutParams(parameters[i], UploadOverwriteArg) IN
       \E resp \in PutParameterResponses(store, req) :
         LET r == create_or_update_parameter(resp) IN
         /\ store' = IF resp = NoError THEN StoreAfterPut(store, req) ELSE store
         /\ log' = Append(log, PutCall(i, req.Overwrite, resp = NoError))
         /\ last_call' = [op |-> "create_or_update_parameter", param |-> parameters[i],
                          existed |-> Present(store, req.Name), request |-> req,
                          response |-> resp, ret |-> r.ret, raised |-> r.raised]
         /\ IF r.raised # NoError
              THEN /\ pc' = "done"
                   /\ ret' = 1
                   /\ UNCHANGED <<i, uploaded_count>>
              ELSE /\ uploaded_count' = IF r.ret THEN uploaded_count + 1
                                        ELSE uploaded_count
                   /\ i' = NextIndex(i)
                   /\ pc' = "loop"
                   /\ ret' = ret
    /\ UNCHANGED <<auth_vars, ssm_client, current_parameters, threads, csv_file, store_at_start, parameters,
                   overwrite, exists, existing_param, skipped_count>>

InitUpload ==
    /\ aws_config = AWSConfigInit
    /\ _session = NoSession
    /\ assume_calls = 0
    /\ last_call = NoCall
    /\ ssm_client = NoSession
    /\ current_parameters = <<>>
    /\ store \in InitialStores
    /\ store_at_start = store
    /\ parameters = <<>>
    /\ overwrite = FALSE
    /\ pc = "idle"
    /\ i = 0
    /\ exists = FALSE
    /\ existing_param = NoParam
    /\ uploaded_count = 0
    /\ skipped_count = 0
    /\ ret = NoRet
    /\ log = <<>>
    /\ threads = NoThreads
    /\ csv_file = NoFile

NextUpload ==
    \/ MainConnect
    \/ StartUpload
    \/ CheckExists
    \/ Prompt
    \/ WriteParameter
    \/ FinishUpload

SpecUpload == InitUpload /\ [][NextUpload]_vars

(***************************************************************************)
(* aws_parameter_manager.py: get_all_parameters                            *)
(* In the specifications below the names of the store are 1, 2, ...: name  *)
(* k is the k-th name in the order describe_parameters lists them.         *)
(***************************************************************************)
MaxResults == 50        \* describe_params = {"MaxResults": 50}
BatchSize == 10         \* range(0, len(parameter_names), 10)
MaxListed == 53         \* the largest store that is listed
MaxBatchFaults == 2     \* get_parameters calls of one scan that do not answer in full

\* next_token = None; the tokens the store hands out are 2, 3, ...: the number
\* of the page they ask for
NoToken == 0

\* The sentinels of get_all_parameters
NotAvailable == "N/A"
ErrorRetrievingValue == "Error retrieving value"

Min(a, b) == IF a < b THEN a ELSE b

\* The names a store holds, in listing order
Listed(st) ==
    SelectSeq([k \in 1..Cardinality(DOMAIN st) |-> k], LAMBDA n : Present(st, n))

RECURSIVE SumTo(_, _)
\* lens[1] + ... + lens[p]
SumTo(lens, p) == IF p = 0 THEN 0 ELSE lens[p] + SumTo(lens, p - 1)

RECURSIVE FullPages(_)
\* n names cut into pages of MaxResults names, the last one shorter
FullPages(n) ==
    IF n <= MaxResults THEN <<n>> ELSE <<MaxResults>> \o FullPages(n - MaxResults)

\* Page lengths below MaxResults the store may choose to answer with
ShortPages == {0, 3, 13}

\* The ways the store cuts a listing of n names into pages: it fills every page,
\* or starts with a shorter page, or ends with a token for an empty page
PageSplits(n) ==
    {FullPages(n)}
    \cup {<<short>> \o FullPages(n - short) : short \in {x \in ShortPages : x < n}}
    \cup (IF n > 0 THEN {FullPages(n) \o <<0>>} ELSE {})

\* One item of a describe_parameters page
Metadata(st, n) ==
    [Name |-> n, Type |-> st[n].Type, Tier |-> st[n].Tier, KeyId |-> st[n].KeyId]

\* The answers to the describe_parameters calls of one scan, the listing being
\* cut into pages of lengths lens
PagesOf(st, lens) ==
    LET listed == Listed(st) IN
    [p \in 1..Len(lens) |->
        [error |-> NoError,
         Parameters |-> LET before == SumTo(lens, p - 1) IN
                        [k \in 1..lens[p] |-> Metadata(st, listed[before + k])],
         NextToken |-> IF p < Len(lens) THEN p + 1 ELSE NoToken]]

\* What the describe_parameters(MaxResults=50[, NextToken]) calls of one scan
\* can answer: every page, or the pages up to one call that fails
DescribePagesResponses(st) ==
    LET scripts == {PagesOf(st, lens) : lens \in PageSplits(Len(Listed(st)))} IN
    scripts
    \cup UNION {{SubSeq(pages, 1, p - 1)
                   \o <<[error |-> e, Parameters |-> <<>>, NextToken |-> NoToken]>> :
                 p \in 1..Len(pages),
                 e \in {AccessDeniedException, EndpointConnectionError}} :
                pages \in scripts}

\* A get_parameters answer that leaves out the first name it was asked for
\* (the response lists it under InvalidParameters)
Incomplete == "Incomplete"

GetParametersOutcomes == {NoError, Incomplete, AccessDeniedException, EndpointConnectionError}

\* What ssm.get_parameters(Names=batch_names, WithDecryption=decrypt) answers
\* under one outcome
GetParametersResponse(st, batch_names, outcome) ==
    LET found == [k \in 1..Len(batch_names) |->
                    [Name |-> batch_names[k], Value |-> st[batch_names[k]].Value,
                     Version |-> st[batch_names[k]].Version]] IN
    IF outcome = NoError THEN [error |-> NoError, Parameters |-> found]
    ELSE IF outcome = Incomplete THEN [error |-> NoError, Parameters |-> Tail(found)]
    ELSE [error |-> outcome, Parameters |-> <<>>]

RECURSIVE BatchScripts(_, _)
\* The outcomes of the b get_parameters calls of one scan, at most k of them
\* other than a full answer
BatchScripts(b, k) ==
    IF k = 0 THEN {[c \in 1..b |-> NoError]}
    ELSE LET fewer == BatchScripts(b, k - 1) IN
         fewer \cup {[f EXCEPT ![c] = o] :
                       f \in fewer, c \in 1..b, o \in GetParametersOutcomes}

\* len(range(0, n, 10))
BatchesOf(n) == (n + BatchSize - 1) \div BatchSize

RECURSIVE NumBatches(_, _)
\* The get_parameters calls a scan of pages 1..p makes when none fails
NumBatches(pages, p) ==
    IF p = 0 THEN 0
    ELSE BatchesOf(Len(pages[p].Parameters)) + NumBatches(pages, p - 1)

\* The record of the try branch: metadata combined with the value looked up
CombinedParam(param_meta, values) ==
    LET hit == {k \in 1..Len(values) : values[k].Name = param_meta.Name} IN
    [Name |-> param_meta.Name,
     Value |-> IF hit = {} THEN NotAvailable ELSE values[CHOOSE k \in hit : TRUE].Value,
     Type |-> param_meta.Type, Tier |-> param_meta.Tier, KeyId |-> param_meta.KeyId,
     Version |-> IF hit = {} THEN NotAvailable
                 ELSE ToString(values[CHOOSE k \in hit : TRUE].Version)]

\* The record of the except ClientError branch
ParamWithoutValue(param_meta) ==
    [Name |-> param_meta.Name, Value |-> ErrorRetrievingValue,
     Type |-> param_meta.Type, Tier |-> param_meta.Tier, KeyId |-> param_meta.KeyId,
     Version |-> NotAvailable]

\* The records the except ClientError branch appends for a failed batch
RecordsOfFailedBatch(metas) == [k \in 1..Len(metas) |-> ParamWithoutValue(metas[k])]

\* A slice that stops one item early
BatchSliceShort(seq, i0) == SubSeq(seq, i0 + 1, Min(i0 + BatchSize - 1, Len(seq)))

\* seq[i0 : i0 + 10], i0 counted from 0 as in the code
BatchSlice(seq, i0) == SubSeq(seq, i0 + 1, Min(i0 + BatchSize, Len(seq)))

\* The calls a scan makes, with what the store answered
DescribeAllCall(token, response) ==
    [op |-> "describe_parameters", NextToken |-> token,
     Names |-> [k \in 1..Len(response.Parameters) |-> response.Parameters[k].Name],
     error |-> response.error]
GetParametersCall(batch_names, resp) ==
    [op |-> "get_parameters", NextToken |-> NoToken, Names |-> batch_names,
     error |-> IF resp.error = NoError /\ Len(resp.Parameters) < Len(batch_names)
                 THEN Incomplete ELSE resp.error]

\* The locals of get_all_parameters when it starts
ScanStart == [all_parameters |-> <<>>, calls |-> <<>>, batches |-> 0,
              raised |-> NoError, failed_call |-> "", listing_error |-> NoError]

RECURSIVE ScanBatches(_, _, _, _, _)
\* `for i in range(0, len(parameter_names), 10)` from i0 on, over the items
\* metas of one page; outcomes[c] is the outcome of the c-th get_parameters call
\* of the scan
ScanBatches(st, metas, i0, outcomes, acc) ==
    IF i0 >= Len(metas) THEN acc
    ELSE LET batch == BatchSlice(metas, i0)
             batch_names == [k \in 1..Len(batch) |-> batch[k].Name]
             c == acc.batches + 1
             resp == GetParametersResponse(st, batch_names, outcomes[c])
             called == [acc EXCEPT !.batches = c,
                                   !.calls = Append(@, GetParametersCall(batch_names, resp))]
         IN IF resp.error = NoError
              THEN ScanBatches(st, metas, i0 + BatchSize, outcomes,
                     [called EXCEPT !.all_parameters =
                         @ \o [k \in 1..Len(batch) |->
                                 CombinedParam(batch[k], resp.Parameters)]])
            ELSE IF IsClientError(resp.error)
              THEN ScanBatches(st, metas, i0 + BatchSize, outcomes,
                     [called EXCEPT !.all_parameters = @ \o RecordsOfFailedBatch(batch)])
            ELSE [called EXCEPT !.raised = resp.error, !.failed_call = "get_parameters"]

RECURSIVE ScanPages(_, _, _, _, _)
\* `while True` from the describe_parameters call that sends next_token
ScanPages(st, pages, next_token, outcomes, acc) ==
    LET response == pages[IF next_token = NoToken THEN 1 ELSE next_token]
        called == [acc EXCEPT !.calls = Append(@, DescribeAllCall(next_token, response))]
    IN IF response.error # NoError
         THEN IF IsClientError(response.error)
                THEN [called EXCEPT !.listing_error = response.error]
                ELSE [called EXCEPT !.raised = response.error,
                                    !.failed_call = "describe_parameters"]
       ELSE LET after == ScanBatches(st, response.Parameters, 0, outcomes, called) IN
            IF after.raised # NoError \/ response.NextToken = NoToken
              THEN after
              ELSE ScanPages(st, pages, response.NextToken, outcomes, after)

\* get_all_parameters up to the caching, under one course of answers
get_all_parameters(st, pages, outcomes) == ScanPages(st, pages, NoToken, outcomes, ScanStart)

RECURSIVE DictFrom(_, _)
\* {param["Name"]: param for param in all_parameters[k-1:]}: of two records
\* with one name the later one stays
DictFrom(all_parameters, k) ==
    IF k > Len(all_parameters) THEN <<>>
    ELSE DictFrom(all_parameters, k + 1) @@ (all_parameters[k].Name :> all_parameters[k])

\* A cache that is updated with the new records instead of replaced
CurrentParametersMerged(old, all_parameters) == DictFrom(all_parameters, 1) @@ old

\* self.current_parameters = {param["Name"]: param for param in all_parameters}
CurrentParametersAfter(old, all_parameters) == DictFrom(all_parameters, 1)

\* The manager's methods need the client connect() made
Connected == ssm_client # NoSession

\* One call of get_all_parameters
GetAllParametersCall ==
    /\ pc = "idle"
    /\ Connected
    /\ \E pages \in DescribePagesResponses(store) :
         \E outcomes \in BatchScripts(NumBatches(pages, Len(pages)), MaxBatchFaults) :
           \E r \in {get_all_parameters(store, pages, outcomes)} :
           \E after \in {CurrentParametersAfter(current_parameters, r.all_parameters)} :
           IF r.raised # NoError
             THEN /\ current_parameters' = current_parameters
                  /\ last_call' = [op |-> "get_all_parameters", raised |-> r.raised,
                                   failed_call |-> r.failed_call,
                                   listing_error |-> NoError, ret |-> <<>>,
                                   calls |-> <<>>, had_others |-> FALSE]
             ELSE /\ current_parameters' = after
                  /\ last_call' = [op |-> "get_all_parameters", raised |-> NoError,
                                   failed_call |-> "",
                                   listing_error |-> r.listing_error,
                                   ret |-> r.all_parameters, calls |-> r.calls,
                                   had_others |->
                                     DOMAIN current_parameters \ DOMAIN after # {}]
    /\ UNCHANGED <<auth_vars, ssm_client, upload_vars>>

\* The store that is listed: names 1..n, every third one a SecureString
ListedRecord(k) ==
    [Value |-> ToString(k),
     Type |-> IF k % 3 = 0 THEN "SecureString" ELSE "String",
     Tier |-> "Standard",
     KeyId |-> IF k % 3 = 0 THEN "alias/aws/ssm" ELSE "",
     Version |-> 1]

StoreOf(n) == [k \in 1..MaxListed |-> IF k <= n THEN ListedRecord(k) ELSE Absent]

ListSizes == {0, 3, 23, MaxResults, 53, MaxListed}

InitList ==
    /\ aws_config = AWSConfigInit
    /\ _session = NoSession
    /\ assume_calls = 0
    /\ last_call = NoCall
    /\ ssm_client = NoSession
    /\ current_parameters = <<>>
    /\ store \in {StoreOf(n) : n \in ListSizes}
    /\ store_at_start = store
    /\ parameters = <<>>
    /\ overwrite = FALSE
    /\ pc = "idle"
    /\ i = 0
    /\ exists = FALSE
    /\ existing_param = NoParam
    /\ uploaded_count = 0
    /\ skipped_count = 0
    /\ ret = NoRet
    /\ log = <<>>
    /\ threads = NoThreads
    /\ csv_file = NoFile

\* main() -> list_command: one get_all_parameters, after connect() returned True
ListCommand ==
    /\ last_call.op = "connect" /\ last_call.ret = TRUE
    /\ GetAllParametersCall
    /\ UNCHANGED threads

NextList ==
    \/ MainConnect
    \/ ListCommand

SpecList == InitList /\ [][NextList]_vars

(***************************************************************************)
(* A session with the manager (gui_app.py): listings, writes and deletes   *)
(* in any order, over a store of two names                                 *)
(***************************************************************************)
MaxVersion == 2         \* highest version a written parameter reaches

loop_vars == <<store_at_start, parameters, overwrite, pc, i, exists, existing_param,
               uploaded_count, skipped_count, ret, log, csv_file>>

ManagedStores == [{1, 2} -> {Absent, OldRecord}]

\* The name the writes and deletes of the session go to
TargetNames == {1}

ParamTypes == {"String", "StringList", "SecureString"}

\* The records a caller passes to create_or_update_parameter: as
\* read_csv_parameters builds them, the kms column empty or left to the default
ParamInputs(c) ==
    {[key |-> n, value |-> "new", type |-> t, tier |-> "Standard", kms_key |-> k] :
       n \in TargetNames, t \in ParamTypes, k \in {"", c.kms_key_alias}}

\* What ssm.delete_parameter(Name) can answer
DeleteParameterResponses(st, name) ==
    (IF Present(st, name) THEN {NoError} ELSE {ParameterNotFound})
    \cup {AccessDeniedException, EndpointConnectionError}

\* The store after an accepted delete_parameter
StoreAfterDelete(st, name) == [st EXCEPT ![name] = Absent]

\* A delete that takes "not found" for done
delete_parameter_idempotent(resp) ==
    IF resp = NoError \/ resp = ParameterNotFound THEN [raised |-> NoError, ret |-> TRUE]
    ELSE IF IsClientError(resp) THEN [raised |-> NoError, ret |-> FALSE]
    ELSE [raised |-> resp, ret |-> FALSE]

\* delete_parameter, given the answer to ssm.delete_parameter
delete_parameter(resp) ==
    IF resp = NoError THEN [raised |-> NoError, ret |-> TRUE]
    ELSE IF IsClientError(resp) THEN [raised |-> NoError, ret |-> FALSE]
    ELSE [raised |-> resp, ret |-> FALSE]

\* One call of create_or_update_parameter(param, overwrite)
CreateOrUpdateCall ==
    /\ pc = "idle"
    /\ Connected
    /\ \E param \in ParamInputs(aws_config), ow \in BOOLEAN :
         LET req == PutParams(param, ow) IN
         /\ store[param.key].Version < MaxVersion
         /\ \E resp \in PutParameterResponses(store, req) :
              LET r == create_or_update_parameter(resp) IN
              /\ store' = IF resp = NoError THEN StoreAfterPut(store, req) ELSE store
              /\ last_call' = [op |-> "create_or_update_parameter", param |-> param,
                               existed |-> Present(store, req.Name), request |-> req,
                               response |-> resp, ret |-> r.ret, raised |-> r.raised]
    /\ UNCHANGED <<auth_vars, ssm_client, current_parameters, loop_vars, threads>>

\* A delete_parameter that drops the client and the cached session when the
\* store turns the call down, so that the next call has to authenticate again
DeleteParameterCallReauthenticating ==
    /\ pc = "idle"
    /\ Connected
    /\ \E name \in TargetNames :
         \E resp \in DeleteParameterResponses(store, name) :
           LET r == delete_parameter(resp) IN
           /\ store' = IF resp = NoError THEN StoreAfterDelete(store, name) ELSE store
           /\ last_call' = [op |-> "delete_parameter", name |-> name,
                            existed |-> Present(store, name), response |-> resp,
                            ret |-> r.ret, raised |-> r.raised]
           /\ _session' = IF resp = NoError THEN _session ELSE NoSession
           /\ ssm_client' = IF resp = NoError THEN ssm_client ELSE NoSession
    /\ UNCHANGED <<aws_config, assume_calls, current_parameters, loop_vars>>

\* One call of delete_parameter(parameter_name)
DeleteParameterCall ==
    /\ pc = "idle"
    /\ Connected
    /\ \E name \in TargetNames :
         \E resp \in DeleteParameterResponses(store, name) :
           LET r == delete_parameter(resp) IN
           /\ store' = IF resp = NoError THEN StoreAfterDelete(store, name) ELSE store
           /\ last_call' = [op |-> "delete_parameter", name |-> name,
                            existed |-> Present(store, name), response |-> resp,
                            ret |-> r.ret, raised |-> r.raised]
    /\ UNCHANGED <<auth_vars, ssm_client, current_parameters, loop_vars>>

InitManager ==
    /\ aws_config = AWSConfigInit
    /\ _session = NoSession
    /\ assume_calls = 0
    /\ last_call = NoCall
    /\ ssm_client = NoSession
    /\ current_parameters = <<>>
    /\ store \in ManagedStores
    /\ store_at_start = store
    /\ parameters = <<>>
    /\ overwrite = FALSE
    /\ pc = "idle"
    /\ i = 0
    /\ exists = FALSE
    /\ existing_param = NoParam
    /\ uploaded_count = 0
    /\ skipped_count = 0
    /\ ret = NoRet
    /\ log = <<>>
    /\ threads = NoThreads
    /\ csv_file = NoFile

NextManager ==
    \/ MainConnect
    \/ GetAllParametersCall /\ UNCHANGED threads
    \/ CreateOrUpdateCall
    \/ DeleteParameterCall /\ UNCHANGED threads

SpecManager == InitManager /\ [][NextManager]_vars

(***************************************************************************)
(* Properties of the authentication configuration (checked under SpecAuth) *)
(***************************************************************************)
SetterNames == {"set_access_key_auth", "set_profile_auth", "set_sso_auth",
                "set_role_auth", "set_environment_auth", "set_default_auth"}

\* The fields each method requires
RequiredFields(m) ==
    CASE m = ACCESS_KEY -> {"access_key_id", "secret_access_key"}
      [] m = PROFILE -> {"profile_name"}
      [] m = SSO -> {"sso_start_url", "sso_region", "sso_account_id", "sso_role_name"}
      [] m = ROLE -> {"role_arn"}
      [] OTHER -> {}

RequiredNonEmpty(c) ==
    \A f \in RequiredFields(c.auth_method) : c[f] # None /\ c[f] # ""

\* C1: after any sequence of setter calls, is_configured() is true exactly when
\* every field required by the active method is non-empty (ENVIRONMENT and
\* DEFAULT require none); the fields of the other methods do not enter.
C1_IsConfiguredIffRequired ==
    /\ is_configured(aws_config) <=> RequiredNonEmpty(aws_config)
    /\ last_call.op = "is_configured" => (last_call.ret <=> RequiredNonEmpty(aws_config))

\* C1 witness: is_configured() answered False for an SSO configuration with a
\* missing field although a complete access key pair is left over.
C1_Witness ==
    /\ last_call.op = "is_configured"
    /\ ~last_call.ret
    /\ aws_config.auth_method = SSO
    /\ aws_config.sso_role_name = ""
    /\ Truthy(aws_config.sso_start_url)
    /\ Truthy(aws_config.access_key_id) /\ Truthy(aws_config.secret_access_key)

\* The method, the region and the credential fields: all but the KMS key alias
CredentialFields == DOMAIN AWSConfigInit \ {"kms_key_alias"}

\* C2: every setter call, and every step that changes the method or a
\* credential field, leaves the cached session empty; the cached session is always the one derived from
\* the current configuration; and the first get_session() after a setter runs a
\* session creation instead of returning a session made before.
C2_SetterInvalidatesSession ==
    /\ [](last_call.op \in SetterNames \cup {"reset"} => _session = NoSession)
    /\ [](_session # NoSession => _session = CreateSession(aws_config))
    /\ [][(\E f \in CredentialFields : aws_config'[f] # aws_config[f])
            => _session' = NoSession]_vars
    /\ [][(last_call.op \in SetterNames \cup {"reset"} /\ last_call'.op = "get_session")
            => (last_call'.created
                /\ last_call'.ret \in {NoSession, CreateSession(aws_config')})]_vars

\* C2 witness: a setter ran while a session was cached, and the session is gone.
C2_Witness ==
    /\ last_call.op = "set_profile_auth"
    /\ last_call.cached
    /\ _session = NoSession

\* C3 as stated: at most one role-assumption call per configuration.
C3_AssumeAtMostOncePerConfiguration == assume_calls <= 1

\* C3 (amended): while a session is cached and the configuration is unchanged,
\* get_session() returns the cached session, leaves it in place, creates nothing
\* and calls sts.assume_role not at all; a role assumption is only ever issued
\* while no session is cached.
C3_GetSessionMemoized ==
    /\ [][(_session # NoSession /\ last_call'.op = "get_session"
           /\ aws_config' = aws_config)
            => (/\ last_call'.ret = _session
                /\ _session' = _session
                /\ ~last_call'.created
                /\ assume_calls' = assume_calls)]_vars
    /\ [][assume_calls' > assume_calls => _session = NoSession]_vars
    /\ []((last_call.op = "get_session" /\ last_call.cached)
            => (~last_call.created /\ last_call.ret = _session
                /\ last_call.raised = NoError))

\* C3 witness: get_session() answered from the cache under the ROLE method,
\* after exactly one role assumption.
C3_Witness ==
    /\ last_call.op = "get_session"
    /\ last_call.cached
    /\ aws_config.auth_method = ROLE
    /\ assume_calls = 1
    /\ last_call.ret = _session

\* C4: a get_session() that fails raises, returns nothing and leaves the cached
\* session empty, and the get_session() after it runs the creation again; a
\* get_session() that succeeds returns the session it leaves cached.
C4_FailureNotMemoized ==
    /\ []((last_call.op = "get_session" /\ last_call.raised # NoError)
            => (_session = NoSession /\ last_call.ret = NoSession))
    /\ []((last_call.op = "get_session" /\ last_call.raised = NoError)
            => (_session # NoSession /\ last_call.ret = _session))
    /\ [][(last_call.op = "get_session" /\ last_call.raised # NoError
           /\ last_call'.op = "get_session")
            => last_call'.created]_vars

\* C4 witness: the role assumption was rejected a second time, after a first
\* failure that was not memoized.
C4_Witness ==
    /\ last_call.op = "get_session"
    /\ last_call.raised = ClientError
    /\ aws_config.auth_method = ROLE
    /\ assume_calls = 2
    /\ _session = NoSession

(***************************************************************************)
(* Properties of parameter_exists and of the upload (checked under         *)
(* SpecUpload)                                                             *)
(***************************************************************************)
\* C5: parameter_exists returns (False, None) and raises nothing when
\* get_parameter fails with ParameterNotFound; every other failure of
\* get_parameter or of describe_parameters is raised, not turned into False.
C5_NotFoundIsFalseOtherErrorsRaise ==
    last_call.op = "parameter_exists" =>
        /\ last_call.get_error = ParameterNotFound =>
             /\ last_call.raised = NoError
             /\ ~last_call.exists
             /\ last_call.existing_param = NoParam
        /\ last_call.get_error \notin {NoError, ParameterNotFound} =>
             last_call.raised = last_call.get_error
        /\ (last_call.get_error = NoError /\ last_call.desc_error # NoError) =>
             last_call.raised = last_call.desc_error

\* C5 witness: the point read answered ParameterNotFound and parameter_exists
\* returned (False, None); the upload goes on to write the record.
C5_Witness ==
    /\ last_call.op = "parameter_exists"
    /\ last_call.get_error = ParameterNotFound
    /\ last_call.raised = NoError
    /\ ~exists
    /\ existing_param = NoParam
    /\ pc = "write"

\* C6 as stated: whenever the point read succeeds (and the metadata lookup
\* returns), parameter_exists returns (True, record).
C6_ReadSucceedsImpliesTrue ==
    (/\ last_call.op = "parameter_exists"
     /\ last_call.get_error = NoError
     /\ last_call.desc_error = NoError)
        => (/\ last_call.raised = NoError
            /\ last_call.exists
            /\ last_call.existing_param.Value = store[last_call.name].Value)

\* The decision has been requested for record idx
Requested(idx) ==
    \/ pc = "prompt" /\ i = idx
    \/ \E k \in 1..Len(log) : log[k].op = "prompt" /\ log[k].idx = idx

\* C7 as stated: the decision is requested for the record in hand if and only
\* if it exists remotely and overwrite-all is off; with overwrite-all on no
\* decision is requested; every write uses overwrite=true.
C7_PromptIffExistsRemotely ==
    /\ pc \in {"prompt", "write"} =>
         (Requested(i) <=> (Present(store, parameters[i].key) /\ ~overwrite))
    /\ overwrite => \A k \in 1..Len(log) : log[k].op # "prompt"
    /\ \A k \in 1..Len(log) : log[k].op = "put_parameter" => log[k].Overwrite

Keys(params) == [k \in 1..Len(params) |-> params[k].key]
Distinct(seq) == \A k, l \in 1..Len(seq) : seq[k] = seq[l] => k = l
Aborted == \E k \in 1..Len(log) : log[k].op = "prompt" /\ log[k].answer = "q"
PutsOf(idx) == {k \in 1..Len(log) : log[k].op = "put_parameter" /\ log[k].idx = idx}

\* C8: a Skip answer issues no write for its record, leaves the store and the
\* uploaded count as they are, adds exactly one to the skipped count and moves
\* to the next record; and for three distinct records of which only the second
\* exists, Skip for it and every write accepted, the upload ends with
\* uploaded=2, skipped=1, not aborted and the second record's value unchanged.
C8_SkipLeavesRecordAlone ==
    /\ [][(pc = "prompt" /\ Len(log') = Len(log) + 1
           /\ log'[Len(log')] = PromptCall(i, "n"))
            => (/\ store' = store
                /\ skipped_count' = skipped_count + 1
                /\ uploaded_count' = uploaded_count
                /\ i' = i + 1
                /\ pc' = "loop")]_vars
    /\ [](\A k \in 1..Len(log) :
            (log[k].op = "prompt" /\ log[k].answer = "n") => PutsOf(log[k].idx) = {})
    /\ []((/\ pc = "done" /\ ret = 0
           /\ Len(parameters) = 3 /\ Distinct(Keys(parameters))
           /\ ~overwrite
           /\ \A k \in 1..3 : Present(store_at_start, parameters[k].key) <=> k = 2
           /\ PromptCall(2, "n") \in {log[k] : k \in 1..Len(log)}
           /\ \A k \in 1..Len(log) : log[k].ok)
            => (/\ uploaded_count = 2
                /\ skipped_count = 1
                /\ ~Aborted
                /\ store[parameters[2].key] = store_at_start[parameters[2].key]))

\* C8 witness: [A, B, C] with only B existing, Skip for B, ended 2 / 1.
C8_Witness ==
    /\ pc = "done" /\ ret = 0
    /\ Keys(parameters) = <<"/a", "/b", "/c">>
    /\ ~overwrite
    /\ \A n \in Names : Present(store_at_start, n) <=> n = "/b"
    /\ PromptCall(2, "n") \in {log[k] : k \in 1..Len(log)}
    /\ uploaded_count = 2 /\ skipped_count = 1
    /\ store["/b"] = OldRecord

\* C9: once the answer for a record is Abort the upload is over: that prompt is
\* the last call made, so the aborting record and the later ones get no write
\* and the later ones no existence check and no prompt; the skipped count holds
\* only the records answered Skip and the uploaded count equals the number of
\* accepted writes, all of them made for earlier records.
C9_AbortStopsAtOnce ==
    \A k \in 1..Len(log) :
        (log[k].op = "prompt" /\ log[k].answer = "q") =>
            /\ pc = "done" /\ ret = 0
            /\ k = Len(log)
            /\ \A l \in 1..Len(log) : log[l].idx <= log[k].idx
            /\ PutsOf(log[k].idx) = {}
            /\ skipped_count =
                 Cardinality({l \in 1..Len(log) :
                                log[l].op = "prompt" /\ log[l].answer = "n"})
            /\ uploaded_count =
                 Cardinality({l \in 1..Len(log) :
                                log[l].op = "put_parameter" /\ log[l].ok})

\* C9 witness: [A, B, C], A written, Abort at B, C never touched.
C9_Witness ==
    /\ pc = "done"
    /\ Len(parameters) = 3
    /\ log # <<>>
    /\ log[Len(log)] = PromptCall(2, "q")
    /\ uploaded_count = 1
    /\ skipped_count = 0

OpRank(op) ==
    CASE op = "get_parameter" -> 1
      [] op = "describe_parameters" -> 2
      [] op = "prompt" -> 3
      [] op = "put_parameter" -> 4

\* C10: the calls of an upload are made in input order: every call for record
\* idx comes after every call for the records before it, and for one record the
\* existence check, the prompt and the write follow in that order; the records
\* touched so far are the prefix 1..i or 1..i-1 of the input.
C10_RecordsInInputOrder ==
    /\ \A k, l \in 1..Len(log) :
         k < l => \/ log[k].idx < log[l].idx
                  \/ (log[k].idx = log[l].idx /\ OpRank(log[k].op) < OpRank(log[l].op))
    /\ pc \in {"loop", "prompt", "write", "done"} /\ parameters # <<>> =>
         \E m \in {i - 1, i} : {log[k].idx : k \in 1..Len(log)} = 1..m
    /\ pc = "loop" => {log[k].idx : k \in 1..Len(log)} = 1..(i - 1)

\* C10 witness: the third record is being written after the first two were
\* checked and settled.
C10_Witness ==
    /\ pc = "write" /\ i = 3
    /\ \E k \in 1..Len(log) : log[k].op = "prompt" /\ log[k].idx = 1
    /\ \E k \in 1..Len(log) : log[k].op = "put_parameter" /\ log[k].idx = 2
    /\ log[Len(log)].idx = 3

\* What upload_command returns after the loop, whether it ran to the end or was
\* left by `break`
CompletedRet == 0

\* C11 as stated: the uploaded count is the number of accepted writes and the
\* skipped count the number of Skip answers; a failed write leaves the loop
\* running; and an upload that got no Abort answer ends only after every record
\* was processed.
C11_FailedWriteDoesNotStopLoop ==
    /\ uploaded_count =
         Cardinality({k \in 1..Len(log) : log[k].op = "put_parameter" /\ log[k].ok})
    /\ skipped_count =
         Cardinality({k \in 1..Len(log) : log[k].op = "prompt" /\ log[k].answer = "n"})
    /\ (/\ log # <<>>
        /\ log[Len(log)].op = "put_parameter"
        /\ ~log[Len(log)].ok
        /\ log[Len(log)].idx < Len(parameters)) => pc # "done"
    /\ (pc = "done" /\ parameters # <<>> /\ ~Aborted) => i > Len(parameters)

\* C12 as stated: an upload ended by an Abort answer does not end in the outcome
\* of an upload that processed every record.
C12_OutcomeTellsAborted ==
    (pc = "done" /\ Aborted) => ret # CompletedRet

\* C13 as stated: when the existence check of a record fails with an error other
\* than not-found, the upload goes on with the records after it.
C13_ExistsFailureOnlyThatRecord ==
    (/\ last_call.op = "parameter_exists"
     /\ last_call.raised # NoError
     /\ i < Len(parameters)) => pc # "done"

(***************************************************************************)
(* Properties of get_all_parameters (checked under SpecList)               *)
(***************************************************************************)
RECURSIVE Concat(_)
\* The sequences of a sequence, joined
Concat(seqs) == IF seqs = <<>> THEN <<>> ELSE Head(seqs) \o Concat(Tail(seqs))

NamesOf(records) == [k \in 1..Len(records) |-> records[k].Name]
\* The names each call of a sequence of calls carried
CallNames(calls) == [k \in 1..Len(calls) |-> calls[k].Names]

\* The describe_parameters calls of a scan, and the get_parameters calls made
\* for the page that call d returned
PageCalls(calls) == {d \in 1..Len(calls) : calls[d].op = "describe_parameters"}
BatchCallsOf(calls, d) ==
    LET later == {e \in PageCalls(calls) : e > d}
        next == IF later = {} THEN Len(calls) + 1
                ELSE CHOOSE e \in later : \A f \in later : e <= f
    IN SubSeq(calls, d + 1, next - 1)

\* A get_all_parameters call has returned
Returned == last_call.op = "get_all_parameters" /\ last_call.raised = NoError

\* C14: a get_all_parameters that returns holds exactly one record per name the
\* store listed, in listing order (every name of the store when the listing
\* ran to its end); for a page of n names it made exactly ceil(n/10)
\* get_parameters calls, each naming at most 10 parameters and together naming
\* the names of the page once each, in order; and 23 parameters listed in one
\* page and fetched without failure give 23 records with their values, from
\* batches of 10, 10 and 3.
C14_OneRecordPerNameBatchesOfTen ==
    Returned =>
        LET calls == last_call.calls
            pages == SelectSeq(calls, LAMBDA c : c.op = "describe_parameters")
            batches == SelectSeq(calls, LAMBDA c : c.op = "get_parameters")
        IN
        /\ NamesOf(last_call.ret) = Concat(CallNames(pages))
        /\ (last_call.listing_error = NoError) => NamesOf(last_call.ret) = Listed(store)
        /\ \A d \in PageCalls(calls) :
             LET n == Len(calls[d].Names)
                 made == BatchCallsOf(calls, d) IN
             /\ n <= MaxResults
             /\ 10 * Len(made) >= n
             /\ 10 * (Len(made) - 1) < n
             /\ \A k \in 1..Len(made) :
                  made[k].op = "get_parameters" /\ Len(made[k].Names) <= 10
             /\ Concat(CallNames(made)) = calls[d].Names
        /\ (/\ Len(Listed(store)) = 23
            /\ Len(pages) = 1
            /\ \A k \in 1..Len(calls) : calls[k].error = NoError)
             => /\ Len(last_call.ret) = 23
                /\ \A k \in 1..23 : last_call.ret[k].Value = store[k].Value
                /\ [k \in 1..Len(batches) |-> Len(batches[k].Names)] = <<10, 10, 3>>

\* C14 witness: 53 names listed in pages of 50 and 3 and fetched in batches of
\* 10, 10, 10, 10, 10 and 3, every record with its value.
C14_Witness ==
    /\ Returned
    /\ Len(last_call.ret) = 53
    /\ [k \in 1..Len(last_call.calls) |-> Len(last_call.calls[k].Names)]
         = <<50, 10, 10, 10, 10, 10, 3, 3>>
    /\ \A k \in 1..53 : last_call.ret[k].Value = store[k].Value

\* C15 as stated: a get_parameters call that fails does not end the scan: the
\* call returns, every name of the failed batch is a record with the sentinel
\* value, the records of the batches that were answered keep their values, and
\* the batches and pages after it are fetched.
C15_FailedBatchKeepsScanning ==
    last_call.op = "get_all_parameters" =>
        /\ last_call.failed_call # "get_parameters"
        /\ \A c \in 1..Len(last_call.calls) :
             last_call.calls[c].op = "get_parameters" =>
                \A n \in {last_call.calls[c].Names[k] :
                            k \in 1..Len(last_call.calls[c].Names)} :
                  \E k \in 1..Len(last_call.ret) :
                     /\ last_call.ret[k].Name = n
                     /\ last_call.calls[c].error \in {AccessDeniedException}
                          => last_call.ret[k].Value = ErrorRetrievingValue
                     /\ last_call.calls[c].error = NoError
                          => last_call.ret[k].Value = store[n].Value
        /\ (last_call.raised = NoError /\ last_call.listing_error = NoError)
             => NamesOf(last_call.ret) = Listed(store)

CallName(call) ==
    IF call.op = "delete_parameter" THEN call.name ELSE call.param.key

\* C17 as stated: a create_or_update_parameter or delete_parameter that
\* succeeds for a name takes the entry the cache held for that name out of the
\* cache (or replaces it).
C17_WriteOrDeleteInvalidatesCache ==
    [][IF last_call'.op \in {"create_or_update_parameter", "delete_parameter"}
         THEN (/\ last_call'.ret = TRUE
               /\ store' # store
               /\ CallName(last_call') \in DOMAIN current_parameters)
                => (\/ CallName(last_call') \notin DOMAIN current_parameters'
                    \/ current_parameters'[CallName(last_call')]
                         # current_parameters[CallName(last_call')])
         ELSE TRUE]_<<store, current_parameters>>

\* What the caller of a manager call gets to see
OutcomeOf(call) == [raised |-> call.raised, ret |-> call.ret]

\* C18 as stated: the outcome of create_or_update_parameter with
\* overwrite=False against a name that exists differs from its outcome for
\* every other failure of the write.
C18_AlreadyExistsIsDistinct ==
    (/\ last_call.op = "create_or_update_parameter"
     /\ ~last_call.request.Overwrite
     /\ last_call.existed
     /\ last_call.response = ParameterAlreadyExists)
        => \A e \in {AccessDeniedException, EndpointConnectionError} :
              create_or_update_parameter(e) # OutcomeOf(last_call)

\* C19: the put_parameter request carries a KeyId if and only if the record is
\* a SecureString with a non-empty kms_key, and then it is that key; a String
\* or StringList request carries none; a SecureString record without a key is
\* sent without KeyId and, when the store accepts it, stored under the store's
\* default key and reported as written.
C19_KeyIdIffSecureStringWithKey ==
    last_call.op = "create_or_update_parameter" =>
        /\ (last_call.request.KeyId # None)
             <=> (last_call.param.type = "SecureString" /\ last_call.param.kms_key # "")
        /\ last_call.request.KeyId # None => last_call.request.KeyId = last_call.param.kms_key
        /\ last_call.param.type \in {"String", "StringList"}
             => last_call.request.KeyId = None
        /\ (/\ last_call.param.type = "SecureString"
            /\ last_call.param.kms_key = ""
            /\ last_call.response = NoError)
             => /\ last_call.ret = TRUE
                /\ store[last_call.param.key].Type = "SecureString"
                /\ store[last_call.param.key].KeyId = "alias/aws/ssm"

\* C19 witness: a SecureString record with an empty kms_key was written, the
\* request without KeyId.
C19_Witness ==
    /\ last_call.op = "create_or_update_parameter"
    /\ last_call.param.type = "SecureString"
    /\ last_call.param.kms_key = ""
    /\ last_call.request.KeyId = None
    /\ last_call.ret = TRUE
    /\ store[last_call.param.key].Value = "new"

\* C20: delete_parameter returns True, raising nothing, when the store accepts
\* the delete, and the name is then gone; it returns False, raising nothing,
\* when the store rejects it, not-found included; so it returns True only for a
\* name that was there, and a delete_parameter that follows a True one for the
\* same name and gets an answer from the store returns False.
C20_DeleteTrueThenFalse ==
    /\ [](last_call.op = "delete_parameter" =>
            /\ last_call.response = NoError
                 => (/\ last_call.ret = TRUE
                     /\ last_call.raised = NoError
                     /\ ~Present(store, last_call.name))
            /\ IsClientError(last_call.response)
                 => (last_call.ret = FALSE /\ last_call.raised = NoError)
            /\ last_call.ret = TRUE => last_call.existed
            /\ ~last_call.existed
                 => last_call.response \in {ParameterNotFound, AccessDeniedException,
                                            EndpointConnectionError})
    /\ [][(/\ last_call.op = "delete_parameter"
           /\ last_call.ret = TRUE
           /\ last_call'.op = "delete_parameter"
           /\ last_call'.name = last_call.name
           /\ last_call'.raised = NoError)
            => last_call'.ret = FALSE]_vars

\* C20 witness: the name was in the store at the start, a first delete removed
\* it and the delete in hand got ParameterNotFound and returned False.
C20_Witness ==
    /\ last_call.op = "delete_parameter"
    /\ Present(store_at_start, last_call.name)
    /\ ~last_call.existed
    /\ last_call.response = ParameterNotFound
    /\ last_call.ret = FALSE
    /\ last_call.raised = NoError

(***************************************************************************)
(* aws_parameter_manager.py: read_csv_parameters, export_parameters_to_csv *)
(* A CSV file is its header (csv.DictReader's fieldnames) and its rows,    *)
(* each row a record over the header's columns.  A cell the line does not  *)
(* hold is None, as DictReader fills a short row.                          *)
(***************************************************************************)
MaxRows == 2            \* most rows of a CSV file, most records of an export

FileNotFoundError == "FileNotFoundError"
\* the plain Exception("Error reading CSV: ...") of read_csv_parameters
ErrorReadingCsv == "Exception"

RequiredColumns == {"key", "value", "type"}
ValidTypes == {"String", "StringList", "SecureString"}
ValidTiers == {"Standard", "Advanced", "Intelligent-Tiering"}

\* The header export_parameters_to_csv writes
ExportFieldnames == <<"Name", "Value", "Type", "Tier", "KeyId", "LastModifiedDate",
                      "Version", "Description">>

\* str.strip() on the cell texts of the model
Strip(text) ==
    IF text = " /a " THEN "/a"
    ELSE IF text = " Advanced " THEN "Advanced"
    ELSE text

Columns(file) == {file.fieldnames[k] : k \in 1..Len(file.fieldnames)}

\* row.get(column, default): the cell when the header has the column (None in a
\* short row), the default when it has not
RowGet(file, row, column, default) ==
    IF column \in Columns(file) THEN row[column] ELSE default

\* `if not row["key"] or not row["value"]`
RowSkipped(row) == ~Truthy(row.key) \/ ~Truthy(row.value)

\* The record built from one row that is not skipped, with its warnings; raised
\* when .strip() meets None
ReadRow(file, row, row_num, kms_key_alias) ==
    LET type_cell == RowGet(file, row, "type", "String")
        tier_cell == RowGet(file, row, "tier", "Standard")
        kms_cell  == RowGet(file, row, "kms", kms_key_alias)
    IN
    IF type_cell = None \/ tier_cell = None \/ kms_cell = None
      THEN [raised |-> ErrorReadingCsv, param |-> NoParam, warnings |-> <<>>]
    ELSE [raised |-> NoError,
          param |-> [key |-> Strip(row.key), value |-> Strip(row.value),
                     type |-> IF Strip(type_cell) \in ValidTypes THEN Strip(type_cell)
                              ELSE "String",
                     tier |-> IF Strip(tier_cell) \in ValidTiers THEN Strip(tier_cell)
                              ELSE "Standard",
                     kms_key |-> Strip(kms_cell)],
          warnings |->
            (IF Strip(type_cell) \in ValidTypes THEN <<>>
             ELSE <<[row |-> row_num, about |-> "type"]>>)
            \o (IF Strip(tier_cell) \in ValidTiers THEN <<>>
                ELSE <<[row |-> row_num, about |-> "tier"]>>)]

RECURSIVE ReadRows(_, _, _, _, _)
\* The loop over the rows from row k on, the records and warnings so far given
ReadRows(file, k, kms_key_alias, params, warnings) ==
    IF k > Len(file.rows)
      THEN [raised |-> NoError, ret |-> params, warnings |-> warnings]
    ELSE IF RowSkipped(file.rows[k])
      THEN ReadRows(file, k + 1, kms_key_alias, params,
                    Append(warnings, [row |-> k + 1, about |-> "missing"]))
    ELSE LET r == ReadRow(file, file.rows[k], k + 1, kms_key_alias) IN
         IF r.raised # NoError
           THEN [raised |-> r.raised, ret |-> <<>>, warnings |-> warnings]
         ELSE ReadRows(file, k + 1, kms_key_alias, Append(params, r.param),
                       warnings \o r.warnings)

\* read_csv_parameters(csv_file_path): what it returns or raises, and the
\* warnings it prints.  An empty file has no header (fieldnames is None).
read_csv_parameters(file, kms_key_alias) ==
    IF ~file.present
      THEN [raised |-> FileNotFoundError, ret |-> <<>>, warnings |-> <<>>]
    ELSE IF file.fieldnames = <<>> \/ ~(RequiredColumns \subseteq Columns(file))
      THEN [raised |-> ErrorReadingCsv, ret |-> <<>>, warnings |-> <<>>]
    ELSE ReadRows(file, 1, kms_key_alias, <<>>, <<>>)

\* The row csv.DictWriter writes for one listed record: every column as text,
\* a column the record does not have left empty
ExportRow(param) ==
    [Name |-> ToString(param.Name), Value |-> param.Value, Type |-> param.Type,
     Tier |-> param.Tier, KeyId |-> param.KeyId, LastModifiedDate |-> "",
     Version |-> param.Version, Description |-> ""]

\* The file export_parameters_to_csv leaves: header and rows `if parameters`,
\* an empty file for an empty list
ExportedFile(params) ==
    IF params = <<>> THEN [present |-> TRUE, fieldnames |-> <<>>, rows |-> <<>>]
    ELSE [present |-> TRUE, fieldnames |-> ExportFieldnames,
          rows |-> [k \in 1..Len(params) |-> ExportRow(params[k])]]

\* The records get_all_parameters returns for names 1..n: with the value, or
\* the record of a failed batch
ListedParam(k, with_value) ==
    IF with_value
      THEN CombinedParam(Metadata(StoreOf(k), k),
                         GetParametersResponse(StoreOf(k), <<k>>, NoError).Parameters)
    ELSE ParamWithoutValue(Metadata(StoreOf(k), k))

Listings ==
    UNION {{[k \in 1..n |-> ListedParam(k, f[k])] : f \in [1..n -> BOOLEAN]} :
             n \in 0..MaxRows}

\* The headers of the files a user hands to upload, the last one without a
\* required column
Headers == {<<"key", "value", "type">>, <<"key", "value", "type", "tier">>,
            <<"key", "value">>}

\* The rows a file with the given header can hold: a cell is text, or None
\* where the line is short
RowsFor(fieldnames) ==
    IF fieldnames = <<"key", "value", "type", "tier">>
      THEN [key : {"", " /a "}, value : {"", "v"},
            type : {"SecureString", "Weird", None},
            tier : {" Advanced ", "Bogus", None}]
    ELSE IF fieldnames = <<"key", "value", "type">>
      THEN [key : {"", " /a "}, value : {"", "v"},
            type : {"SecureString", "Weird", None}]
    ELSE [key : {"", " /a "}, value : {"", "v"}]

\* The user prepares the file an upload will read: first the header line
WriteCsvHeader ==
    /\ last_call.op = ""
    /\ ~csv_file.present
    /\ \E fieldnames \in Headers :
         csv_file' = [present |-> TRUE, fieldnames |-> fieldnames, rows |-> <<>>]
    /\ UNCHANGED <<auth_vars, last_call, ssm_client, current_parameters, store,
                   store_at_start, parameters, overwrite, pc, i, exists,
                   existing_param, uploaded_count, skipped_count, ret, log, threads>>

\* ... then one more line
WriteCsvRow ==
    /\ last_call.op = ""
    /\ csv_file.present
    /\ Len(csv_file.rows) < MaxRows
    /\ \E row \in RowsFor(csv_file.fieldnames) :
         csv_file' = [csv_file EXCEPT !.rows = Append(@, row)]
    /\ UNCHANGED <<auth_vars, last_call, ssm_client, current_parameters, store,
                   store_at_start, parameters, overwrite, pc, i, exists,
                   existing_param, uploaded_count, skipped_count, ret, log, threads>>

\* One call of export_parameters_to_csv(output_file, parameters), the one
\* export of a list command, output_file naming a file that is not there yet;
\* opening the file for writing may fail, which gives False
ExportParametersCall ==
    /\ last_call.op = ""
    /\ ~csv_file.present
    /\ \E params \in Listings, written \in BOOLEAN :
         /\ csv_file' = IF written THEN ExportedFile(params) ELSE csv_file
         /\ last_call' = [op |-> "export_parameters_to_csv", parameters |-> params,
                          ret |-> written, raised |-> NoError]
    /\ UNCHANGED <<auth_vars, ssm_client, current_parameters, store, store_at_start,
                   parameters, overwrite, pc, i, exists, existing_param,
                   uploaded_count, skipped_count, ret, log, threads>>

\* One call of read_csv_parameters(csv_file_path), the one read of an upload,
\* the caller keeping the list
ReadCsvParametersCall ==
    /\ last_call.op # "read_csv_parameters"
    /\ \E r \in {read_csv_parameters(csv_file, aws_config.kms_key_alias)} :
         /\ parameters' = IF r.raised = NoError THEN r.ret ELSE parameters
         /\ last_call' = [op |-> "read_csv_parameters", file |-> csv_file,
                          ret |-> r.ret, raised |-> r.raised,
                          warnings |-> r.warnings]
    /\ UNCHANGED <<auth_vars, ssm_client, current_parameters, store, store_at_start,
                   overwrite, pc, i, exists, existing_param,
                   uploaded_count, skipped_count, ret, log, threads, csv_file>>

InitCsv ==
    /\ aws_config = AWSConfigInit
    /\ _session = NoSession
    /\ assume_calls = 0
    /\ last_call = NoCall
    /\ ssm_client = NoSession
    /\ current_parameters = <<>>
    /\ store = StoreOf(0)
    /\ store_at_start = store
    /\ parameters = <<>>
    /\ overwrite = FALSE
    /\ pc = "idle"
    /\ i = 0
    /\ exists = FALSE
    /\ existing_param = NoParam
    /\ uploaded_count = 0
    /\ skipped_count = 0
    /\ ret = NoRet
    /\ log = <<>>
    /\ threads = NoThreads
    /\ csv_file = NoFile

NextCsv ==
    \/ WriteCsvHeader
    \/ WriteCsvRow
    \/ ExportParametersCall
    \/ ReadCsvParametersCall

SpecCsv == InitCsv /\ [][NextCsv]_vars

(***************************************************************************)
(* gui_app.py: the handlers of the buttons and the worker threads they     *)
(* start.  A handler runs on the Tk main loop and returns once it has      *)
(* started its thread; the thread runs the manager call.  Nothing in the   *)
(* file joins a thread, takes a lock or disables a button.                 *)
(***************************************************************************)
MaxThreads == 2         \* most worker threads alive at a time

ThreadsAlive == threads.connect + threads.refresh + threads.delete

\* connect_to_aws with the form filled in for the profile or the default
\* method: the setter, the KMS key, then connect_thread is started.  A form
\* without the profile name ends at the error box.
connect_to_aws ==
    /\ ThreadsAlive < MaxThreads
    /\ \E method \in {PROFILE, DEFAULT}, profile \in StrVals, reg \in Regions,
          kms \in KmsKeys :
         /\ method = PROFILE => Truthy(profile)
         /\ method = DEFAULT => profile = ""
         /\ aws_config' =
              [(IF method = PROFILE THEN ProfileConfig(aws_config, profile, reg)
                ELSE DefaultConfig(aws_config, reg))
               EXCEPT !.kms_key_alias = kms]
    /\ _session' = SessionAfterSetter(_session)
    /\ assume_calls' = 0
    /\ last_call' = [op |-> "connect_to_aws", cached |-> _session # NoSession,
                     ret |-> NoSession, raised |-> NoError, created |-> FALSE]
    /\ threads' = [threads EXCEPT !.connect = @ + 1]
    /\ UNCHANGED <<ssm_client, current_parameters, upload_vars>>

\* connect_thread: manager.connect(), then the status line
connect_thread ==
    /\ threads.connect > 0
    /\ connect
    /\ threads' = [threads EXCEPT !.connect = @ - 1]

\* refresh_parameters: the "Please connect to AWS first" guard, then
\* refresh_thread is started
refresh_parameters ==
    /\ ThreadsAlive < MaxThreads
    /\ ssm_client # NoSession
    /\ threads' = [threads EXCEPT !.refresh = @ + 1]
    /\ last_call' = [op |-> "refresh_parameters", cached |-> _session # NoSession,
                     ret |-> NoSession, raised |-> NoError, created |-> FALSE]
    /\ UNCHANGED <<auth_vars, ssm_client, current_parameters, upload_vars>>

\* refresh_thread: manager.get_all_parameters(), then the tree is filled
refresh_thread ==
    /\ threads.refresh > 0
    /\ GetAllParametersCall
    /\ threads' = [threads EXCEPT !.refresh = @ - 1]

\* delete_selected_parameter: a row of the tree is selected, which the last
\* refresh listed, and the question is answered with Yes; delete_thread is
\* started
delete_selected_parameter ==
    /\ ThreadsAlive < MaxThreads
    /\ TargetNames \cap DOMAIN current_parameters # {}
    /\ threads' = [threads EXCEPT !.delete = @ + 1]
    /\ last_call' = [op |-> "delete_selected_parameter",
                     cached |-> _session # NoSession,
                     ret |-> NoSession, raised |-> NoError, created |-> FALSE]
    /\ UNCHANGED <<auth_vars, ssm_client, current_parameters, upload_vars>>

\* delete_thread: manager.delete_parameter(name)
delete_thread ==
    /\ threads.delete > 0
    /\ DeleteParameterCall
    /\ threads' = [threads EXCEPT !.delete = @ - 1]

NextGui ==
    \/ connect_to_aws
    \/ connect_thread
    \/ refresh_parameters
    \/ refresh_thread
    \/ delete_selected_parameter
    \/ delete_thread

SpecGui == InitManager /\ [][NextGui]_vars

(***************************************************************************)
(* cli_app.py: main() from the authentication arguments to the command,    *)
(* over the store of the upload; another client may write to the store     *)
(* while an upload runs.                                                   *)
(***************************************************************************)
\* configure_aws_auth(args) for --auth-method profile, --region and --kms-key
\* left to their defaults, and what main() does when it raises: the
\* ValueError of a missing --profile is printed and main() returns 1
configure_aws_auth ==
    /\ pc = "idle"
    /\ last_call.op = ""
    /\ \E profile \in OptVals :
         IF ~Truthy(profile)
           THEN /\ last_call' = [op |-> "configure_aws_auth", cached |-> FALSE,
                                 ret |-> NoSession, raised |-> ValueError,
                                 created |-> FALSE]
                /\ pc' = "done"
                /\ ret' = 1
                /\ UNCHANGED auth_vars
           ELSE /\ aws_config' =
                     [ProfileConfig(aws_config, profile, AWSConfigInit.region)
                      EXCEPT !.kms_key_alias = AWSConfigInit.kms_key_alias]
                /\ _session' = SessionAfterSetter(_session)
                /\ assume_calls' = 0
                /\ last_call' = [op |-> "configure_aws_auth", cached |-> FALSE,
                                 ret |-> NoSession, raised |-> NoError,
                                 created |-> FALSE]
                /\ UNCHANGED <<pc, ret>>
    /\ UNCHANGED <<ssm_client, current_parameters, store, store_at_start, parameters,
                   overwrite, i, exists, existing_param, uploaded_count,
                   skipped_count, log, threads, csv_file>>

\* main(): manager.connect(), once the authentication is configured
main_connect ==
    /\ pc = "idle"
    /\ last_call.op = "configure_aws_auth"
    /\ connect
    /\ UNCHANGED threads

\* main(): `if not manager.connect(): ... return 1`; an exception that leaves
\* connect() ends the interpreter with status 1 as well
main_connect_failed ==
    /\ pc = "idle"
    /\ last_call.op = "connect"
    /\ last_call.ret = FALSE
    /\ pc' = "done"
    /\ ret' = 1
    /\ UNCHANGED <<auth_vars, last_call, ssm_client, current_parameters, store,
                   store_at_start, parameters, overwrite, i, exists, existing_param,
                   uploaded_count, skipped_count, log, threads, csv_file>>

\* A main() that goes on to the command whatever connect() returned
ConnectionAttempted == last_call.op = "connect"

\* main() has passed `if not manager.connect()`
ConnectionChecked == last_call.op = "connect" /\ last_call.ret = TRUE

\* delete_command: parameter_exists, the question unless --force, then
\* delete_parameter; what it returns is the exit status
delete_command ==
    /\ pc = "idle"
    /\ ConnectionChecked
    /\ \E name \in Names, force \in BOOLEAN, response \in {"y", "n"} :
       \E getResp \in GetParameterResponses(store, name),
          descResp \in DescribeParametersResponses(store, name),
          delResp \in DeleteParameterResponses(store, name) :
         LET e == parameter_exists(getResp, descResp)
             found == e.raised = NoError /\ e.exists
             asked == found /\ ~force
             deletes == found /\ (force \/ response = "y")
             d == delete_parameter(delResp)
         IN
         /\ getResp.error # NoError => descResp = [error |-> NoError, Parameters |-> <<>>]
         /\ ~asked => response = "n"
         /\ ~deletes => delResp = AccessDeniedException
         /\ log' = (IF getResp.error = NoError THEN <<GetCall(0), DescribeCall(0)>>
                    ELSE <<GetCall(0)>>)
                   \o (IF asked THEN <<PromptCall(0, response)>> ELSE <<>>)
                   \o (IF deletes
                         THEN <<[op |-> "delete_parameter", idx |-> 0, answer |-> "",
                                 Overwrite |-> FALSE, ok |-> delResp = NoError]>>
                       ELSE <<>>)
         /\ store' = IF deletes /\ delResp = NoError THEN StoreAfterDelete(store, name)
                     ELSE store
         /\ ret' = IF ~found THEN 1
                   ELSE IF ~deletes THEN 0
                   ELSE IF d.ret THEN 0 ELSE 1
         /\ last_call' = [op |-> "delete_command", name |-> name,
                          existed |-> Present(store, name),
                          response |-> IF deletes THEN delResp ELSE NoError,
                          ret |-> deletes /\ d.ret,
                          raised |-> IF e.raised # NoError THEN e.raised
                                     ELSE IF deletes THEN d.raised ELSE NoError]
    /\ pc' = "done"
    /\ UNCHANGED <<auth_vars, ssm_client, current_parameters, store_at_start,
                   parameters, overwrite, i, exists, existing_param, uploaded_count,
                   skipped_count, threads, csv_file>>

\* Another client of the store creates the parameter the upload is about to
\* write, after the upload has found it absent
OtherClientCreates ==
    /\ pc = "write"
    /\ ~Present(store, parameters[i].key)
    /\ store' = [store EXCEPT ![parameters[i].key] = OldRecord]
    /\ UNCHANGED <<auth_vars, last_call, ssm_client, current_parameters,
                   store_at_start, parameters, overwrite, pc, i, exists,
                   existing_param, uploaded_count, skipped_count, ret, log, threads,
                   csv_file>>

NextCli ==
    \/ configure_aws_auth
    \/ main_connect
    \/ main_connect_failed
    \/ StartUpload
    \/ CheckExists
    \/ Prompt
    \/ WriteParameter
    \/ FinishUpload
    \/ delete_command
    \/ OtherClientCreates

SpecCli == InitUpload /\ [][NextCli]_vars

(***************************************************************************)
(* C21: connect() returns False, and raises nothing, whenever the          *)
(* configuration is incomplete, the session cannot be created or the probe *)
(* call fails; it returns True only when the probe call succeeded.         *)
(***************************************************************************)
C21_ConnectReturnsAndNeverRaises ==
    last_call.op = "connect" =>
        /\ last_call.raised = NoError
        /\ last_call.ret = TRUE => ssm_client # NoSession

(***************************************************************************)
(* C22: a listing or a write that the store rejects for a permission or a  *)
(* precondition reason (AccessDeniedException, ParameterAlreadyExists)     *)
(* reaches the caller as an error: get_all_parameters does not return a    *)
(* listing and create_or_update_parameter does not return a plain False.   *)
(***************************************************************************)
C22_RejectionsReachTheCaller ==
    /\ last_call.op = "get_all_parameters" =>
          last_call.listing_error = NoError
    /\ (last_call.op = "create_or_update_parameter"
          /\ last_call.response \in {AccessDeniedException, ParameterAlreadyExists}) =>
          last_call.raised = last_call.response

(***************************************************************************)
(* C23: only connect() consults the resolver.  A parameter operation of    *)
(* the manager leaves the auth configuration, its cached session and the   *)
(* count of assume_role calls as they were and keeps the client that       *)
(* connect() stored, whether the operation succeeded or failed.            *)
(***************************************************************************)
ManagerOperations == {"get_all_parameters", "create_or_update_parameter",
                      "delete_parameter"}

ExportedFrom(file) ==
    {params \in Listings :
       /\ file.fieldnames = (IF params = <<>> THEN <<>> ELSE ExportFieldnames)
       /\ file = ExportedFile(params)}

C24_ExportThenReadRoundTrips ==
    last_call.op = "read_csv_parameters" =>
      \A params \in ExportedFrom(last_call.file) :
         /\ last_call.raised = NoError
         /\ Len(last_call.ret) = Len(params)
         /\ \A k \in 1..Len(params) :
              /\ last_call.ret[k].key = ToString(params[k].Name)
              /\ last_call.ret[k].value = params[k].Value
              /\ last_call.ret[k].type = params[k].Type
              /\ last_call.ret[k].tier = params[k].Tier

(***************************************************************************)
(* C25: read_csv_parameters turns no row down for its type or tier.  Of a  *)
(* file with the required columns, the rows with an empty key or value are *)
(* dropped with a warning and every other row gives one record, in file    *)
(* order, with its key and value, an unrecognized type replaced by String  *)
(* and an unrecognized tier by Standard, each with a warning.              *)
(***************************************************************************)
KeptRows(file) == SelectSeq(file.rows, LAMBDA row : ~RowSkipped(row))

\* the row numbers (the header is row 1) of the rows that satisfy Test
RowNumbers(file, Test(_)) == {k + 1 : k \in {j \in 1..Len(file.rows) : Test(file.rows[j])}}

Recognized(cell, valid) == cell # None /\ Strip(cell) \in valid

C25_RowsAreCoercedNeverRejected ==
    (/\ last_call.op = "read_csv_parameters"
     /\ last_call.file.present
     /\ RequiredColumns \subseteq Columns(last_call.file)) =>
      LET file == last_call.file
          kept == KeptRows(file)
          TypeOf(row) == RowGet(file, row, "type", "String")
          TierOf(row) == RowGet(file, row, "tier", "Standard")
          Warned(about) ==
            {last_call.warnings[k].row :
               k \in {j \in 1..Len(last_call.warnings) :
                        last_call.warnings[j].about = about}}
      IN
      /\ last_call.raised = NoError
      /\ Len(last_call.ret) = Len(kept)
      /\ \A k \in 1..Len(kept) :
           /\ last_call.ret[k].key = Strip(kept[k].key)
           /\ last_call.ret[k].value = Strip(kept[k].value)
           /\ last_call.ret[k].type =
                IF Recognized(TypeOf(kept[k]), ValidTypes) THEN Strip(TypeOf(kept[k]))
                ELSE "String"
           /\ last_call.ret[k].tier =
                IF Recognized(TierOf(kept[k]), ValidTiers) THEN Strip(TierOf(kept[k]))
                ELSE "Standard"
      /\ Warned("missing") = RowNumbers(file, RowSkipped)
      /\ Warned("type") =
           RowNumbers(file, LAMBDA row : ~RowSkipped(row)
                                          /\ ~Recognized(TypeOf(row), ValidTypes))
      /\ Warned("tier") =
           RowNumbers(file, LAMBDA row : ~RowSkipped(row)
                                          /\ ~Recognized(TierOf(row), ValidTiers))

(***************************************************************************)
(* C26: the GUI keeps the operations on its manager apart: at any time at  *)
(* most one worker thread (connect, refresh, delete) is between its start  *)
(* and its end.                                                            *)
(***************************************************************************)
C26_OneOperationInFlight == ThreadsAlive <= 1

(***************************************************************************)
(* C28: after a setter has changed the auth configuration, every store     *)
(* operation is made with a client of a session created from the           *)
(* configuration as it is now, never with one kept from the former.        *)
(***************************************************************************)
C28_NoOperationOnAStaleClient ==
    last_call.op \in ManagerOperations => ssm_client = CreateSession(aws_config)

(***************************************************************************)
(* C30: the manager holds a client only if its most recent connect()       *)
(* returned True: right after a connect() that returned False or raised,   *)
(* ssm_client is None, so that the GUI's guard turns refresh away.         *)
(***************************************************************************)
C30_ClientOnlyAfterSuccessfulConnect ==
    (last_call.op = "connect" /\ last_call.ret = FALSE) =>
        ssm_client = NoSession

(***************************************************************************)
(* C27: in the CLI no store operation of a command is issued before the    *)
(* connection check has succeeded.  Once configure_aws_auth has raised or  *)
(* connect() has failed, no call has gone to the store, the store is as it *)
(* was, and the only step left is the return with exit status 1; and the   *)
(* first call a command makes follows a connect() that returned True.      *)
(***************************************************************************)
ConnectionFailed ==
    \/ last_call.op = "configure_aws_auth" /\ last_call.raised # NoError
    \/ last_call.op = "connect" /\ last_call.ret = FALSE

C27_NoStoreOperationBeforeConnect ==
    /\ [](ConnectionFailed =>
            /\ log = <<>>
            /\ store = store_at_start
            /\ pc = "done" => ret = 1)
    /\ [][ConnectionFailed =>
            /\ log' = <<>>
            /\ store' = store
            /\ pc' = "done"
            /\ ret' = 1
         ]_<<log, store, pc, ret>>
    /\ [][(log = <<>> /\ log' # <<>>) => ConnectionChecked]_log

\* connect() returned False and the run has ended with 1, no call made
C27_Witness ==
    /\ last_call.op = "connect"
    /\ last_call.ret = FALSE
    /\ pc = "done"
    /\ ret = 1
    /\ log = <<>>

(***************************************************************************)
(* C29: with overwrite-all off, an upload overwrites a parameter that is   *)
(* in the store at the moment of the write only if the prompt for that     *)
(* record was answered with Replace, also when another client created the  *)
(* parameter after the upload's existence check.                           *)
(***************************************************************************)
C29_OverwriteOnlyAfterReplace ==
    (/\ last_call.op = "create_or_update_parameter"
     /\ ~overwrite
     /\ last_call.existed
     /\ last_call.response = NoError) =>
        \E k \in 1..Len(log) : log[k] = PromptCall(log[Len(log)].idx, "y")
====
